---------------------------- MODULE Spec2Model ----------------------------
(* apply_gain(short* samples, size_t length, float gain) of                *)
(* src/audio_filter/audio_filter.cpp, statement by statement.              *)
(*                                                                         *)
(* A float is a record [m |-> mantissa, e |-> exponent] standing for the   *)
(* dyadic rational m * 2^e; every float32 is one.  All the arithmetic is   *)
(* done on the pair, so that no value leaves the range of TLC's integers   *)
(* even when the float itself is far outside the range of int.             *)
EXTENDS Integers, Sequences, FiniteSets

(***************************************************************************)
(* Bounds of the model                                                     *)
(***************************************************************************)
\* capacity, in elements, of every buffer handed to apply_gain
BufLen == 2
\* calls a caller makes one after the other on the same buffer
MaxCalls == 2

(***************************************************************************)
(* Constants of the program                                                *)
(***************************************************************************)
\* line 6: if (sample > 32767) sample = 32767;
SHRT_MAX == 32767
\* line 7: if (sample < -32768) sample = -32768;
SHRT_MIN == -32768
\* line 5: int sample -- the largest value of a 32-bit int
INT_MAX == 2147483647
\* line 5: int sample -- the smallest value of a 32-bit int
INT_MIN == (-INT_MAX) - 1
\* line 3: float gain -- significand bits of a float32
FLT_MANT_DIG == 24

(***************************************************************************)
(* Integer helpers                                                         *)
(***************************************************************************)
Abs(x) == IF x < 0 THEN -x ELSE x

Sign(x) == IF x < 0 THEN -1 ELSE IF x > 0 THEN 1 ELSE 0

RECURSIVE Pow2(_)
Pow2(n) == IF n <= 0 THEN 1 ELSE 2 * Pow2(n - 1)

RECURSIVE BitLen(_)
BitLen(a) == IF a <= 0 THEN 0 ELSE 1 + BitLen(a \div 2)

(***************************************************************************)
(* Line 5, samples[i] * gain.  The short is promoted to int and converted  *)
(* to float, both exactly; the product is then rounded to the format the   *)
(* build evaluates float expressions in.                                   *)
(***************************************************************************)
\* short -> int -> float: every 16-bit value is a float32
ToFloat(s) == [m |-> s, e |-> 0]

\* round-to-nearest, ties-to-even, of m * 2^e to FLT_MANT_DIG significant bits
RoundF32(m, e) ==
    LET a == Abs(m)
        k == BitLen(a) - FLT_MANT_DIG
    IN  IF k <= 0 THEN [m |-> m, e |-> e]
        ELSE LET q  == a \div Pow2(k)
                 r  == a % Pow2(k)
                 h  == Pow2(k - 1)
                 up == r > h \/ (r = h /\ q % 2 = 1)
                 q2 == IF up THEN q + 1 ELSE q
             IN  [m |-> Sign(m) * q2, e |-> e + k]

\* the exact product of two floats
ExactMul(a, b) == [m |-> a.m * b.m, e |-> a.e + b.e]

\* a * b as the build evaluates it: in float32 (FLT_EVAL_METHOD 0, the
\* product rounded to float32) or in a wider format (FLT_EVAL_METHOD 1 or 2,
\* in which a 16-bit by 24-bit product is exact)
FMul(a, b, w) ==
    IF w THEN ExactMul(a, b) ELSE RoundF32(a.m * b.m, a.e + b.e)

(***************************************************************************)
(* Line 5, static_cast<int>(...): the fractional part is discarded; when   *)
(* the truncated value is not a value of int the behaviour is undefined.   *)
(***************************************************************************)
\* whether the truncated value of f is representable in int
InIntRange(f) ==
    \/ f.m = 0
    \/ f.e <= 0
    \/ /\ f.e > 0
       /\ f.e <= 30
       /\ f.m <= INT_MAX \div Pow2(f.e)
       /\ f.m >= INT_MIN \div Pow2(f.e)
    \/ f.e = 31 /\ f.m = -1

\* a conversion that rounds toward minus infinity instead
TruncFloor(f) ==
    IF f.m = 0 THEN 0
    ELSE IF f.e = 31 THEN INT_MIN
    ELSE IF f.e >= 0 THEN f.m * Pow2(f.e)
    ELSE IF -f.e > 30 THEN (IF f.m < 0 THEN -1 ELSE 0)
    ELSE f.m \div Pow2(-f.e)

\* f with its fractional part discarded (f in the range of int)
TruncTowardZero(f) ==
    IF f.m = 0 THEN 0
    ELSE IF f.e = 31 THEN INT_MIN
    ELSE IF f.e >= 0 THEN f.m * Pow2(f.e)
    ELSE IF -f.e > 30 THEN 0
    ELSE Sign(f.m) * (Abs(f.m) \div Pow2(-f.e))

\* what an out-of-range float-to-int conversion yields: the "integer
\* indefinite" value INT_MIN (x86 cvttss2si) or the saturated value of
\* either end (ARM vcvt saturates; MIPS trunc.w.s yields INT_MAX)
OutOfRangeCast == {INT_MIN, INT_MAX}

\* the values static_cast<int>(f) can yield
CastToInt(f) ==
    IF InIntRange(f) THEN {TruncTowardZero(f)} ELSE OutOfRangeCast

(***************************************************************************)
(* Lines 6 to 8                                                            *)
(***************************************************************************)
\* line 6 left out
ClampHighMissing(x) == x

\* line 6
ClampHigh(x) == IF x > SHRT_MAX THEN SHRT_MAX ELSE x

\* line 7 clamping to the symmetric range
ClampLowSymmetric(x) == IF x <= SHRT_MIN THEN SHRT_MIN + 1 ELSE x

\* line 7
ClampLow(x) == IF x < SHRT_MIN THEN SHRT_MIN ELSE x

\* line 8, static_cast<short>(sample): the low 16 bits, as a signed value
NarrowToShort(x) ==
    LET r == x % 65536 IN IF r > SHRT_MAX THEN r - 65536 ELSE r

\* a loop condition that lets the index reach length
LoopCondInclusive(idx, len) == idx <= len

\* a loop condition that stops one element early
LoopCondShort(idx, len) == idx + 1 < len

\* line 4, the loop condition
LoopCond(idx, len) == idx < len

\* an increment that skips every other element
NextIndexSkip(idx) == idx + 2

\* line 4, ++i
NextIndex(idx) == idx + 1

\* lines 5 to 8 for one element s: the values an iteration can store
Iteration(s, g, w) ==
    {NarrowToShort(ClampLow(ClampHigh(v))) : v \in CastToInt(FMul(ToFloat(s), g, w))}

(***************************************************************************)
(* The inputs the callers draw from                                        *)
(***************************************************************************)
\* 0.0f
GainZero == [m |-> 0, e |-> 0]
\* 1.0f
GainOne == [m |-> 1, e |-> 0]
\* 0.5f
GainHalf == [m |-> 1, e |-> -1]
\* -1.5f
GainNegOneAndHalf == [m |-> -3, e |-> -1]
\* 2.0f
GainTwo == [m |-> 1, e |-> 1]
\* 0.5000152587890625f = 32769 * 2^-16
GainAboveHalf == [m |-> 32769, e |-> -16]
\* 65536.0f
Gain64K == [m |-> 1, e |-> 16]
\* 131072.0f
Gain128K == [m |-> 1, e |-> 17]
\* -131072.0f
GainNeg128K == [m |-> -1, e |-> 17]

Gains ==
    {GainZero, GainOne, GainHalf, GainNegOneAndHalf, GainTwo, GainAboveHalf,
     Gain64K, Gain128K, GainNeg128K}

Samples == {SHRT_MIN, -32000, -3, 0, 100, SHRT_MAX}

\* the inputs of the two concurrent callers
ConcGains == {GainNegOneAndHalf, Gain128K}

ConcSamples == {-3, SHRT_MAX}

\* the samples of the caller whose call is followed to its return
TermSamples == {SHRT_MIN, 100}

(***************************************************************************)
(* State                                                                   *)
(***************************************************************************)
VARIABLES
    mem,      \* the memory holding the buffers: address -> short
    samples,  \* per call, the argument samples: the address of element 0
    length,   \* per call, the argument length
    gain,     \* per call, the argument gain
    i,        \* per call, the loop index of line 4
    sample,   \* the local int sample of line 5, one per storage slot
    pc,       \* per call, the statement the call is at
    wide,     \* the build: TRUE when float products are evaluated wider than float32
    calls,    \* per caller, the calls entered so far
    orig,     \* history: per call, the buffer's elements when the call was entered
    rd,       \* history: per call, the addresses read so far
    wr        \* history: per call, the indices stored so far, in order

vars == <<mem, samples, length, gain, i, sample, pc, wide, calls, orig, rd, wr>>

\* the calls (threads) of a behaviour
Callers == DOMAIN pc

\* sample declared static: one object shared by every call
SampleSlotStatic(t) == 1

\* line 5: int sample has automatic storage, one object per call
SampleSlot(t) == t

\* an index off by one
ElemAddrOffByOne(base, idx) == base + idx + 1

\* samples[idx]: the address of element idx of the buffer at base
ElemAddr(base, idx) == base + idx

(***************************************************************************)
(* Initial states: one caller with one buffer, or two callers with two     *)
(* disjoint buffers laid out one after the other.                          *)
(***************************************************************************)
InitCallers(T, S, W) ==
    /\ mem \in [0 .. (Cardinality(T) * BufLen - 1) -> S]
    /\ samples = [t \in T |-> (t - 1) * BufLen]
    /\ length = [t \in T |-> 0]
    /\ gain = [t \in T |-> GainOne]
    /\ i = [t \in T |-> 0]
    /\ sample = [t \in T |-> 0]
    /\ pc = [t \in T |-> "idle"]
    /\ wide \in W
    /\ calls = [t \in T |-> 0]
    /\ orig = [t \in T |-> [j \in 0 .. (BufLen - 1) |-> mem[(t - 1) * BufLen + j]]]
    /\ rd = [t \in T |-> {}]
    /\ wr = [t \in T |-> << >>]

\* one caller, any buffer over Samples, either build
Init == InitCallers({1}, Samples, BOOLEAN)

\* one caller, any buffer over TermSamples, either build
InitTerm == InitCallers({1}, TermSamples, BOOLEAN)

\* two callers, any two buffers over ConcSamples, the float32 build
InitConc == InitCallers({1, 2}, ConcSamples, {FALSE})

(***************************************************************************)
(* apply_gain, one action per statement                                    *)
(***************************************************************************)
\* line 3: the call is entered with its arguments
Enter(t, g, n) ==
    /\ length' = [length EXCEPT ![t] = n]
    /\ gain' = [gain EXCEPT ![t] = g]
    /\ calls' = [calls EXCEPT ![t] = @ + 1]
    /\ orig' = [orig EXCEPT ![t] = [j \in 0 .. (BufLen - 1) |-> mem[samples[t] + j]]]
    /\ rd' = [rd EXCEPT ![t] = {}]
    /\ wr' = [wr EXCEPT ![t] = << >>]
    /\ pc' = [pc EXCEPT ![t] = "for_init"]
    /\ UNCHANGED <<mem, samples, i, sample, wide>>

\* a caller calls apply_gain once, with any length up to the capacity
Call(t) ==
    /\ pc[t] = "idle"
    /\ \E g \in Gains, n \in 0 .. BufLen : Enter(t, g, n)

\* one of two concurrent callers calls apply_gain once
CallConc(t) ==
    /\ pc[t] = "idle"
    /\ \E g \in ConcGains, n \in 0 .. BufLen : Enter(t, g, n)

\* a caller calls apply_gain with gain 1.0f, again and again
CallUnity(t) ==
    /\ pc[t] \in {"idle", "done"}
    /\ calls[t] < MaxCalls
    /\ \E n \in 0 .. BufLen : Enter(t, GainOne, n)

\* line 4: size_t i = 0
ForInit(t) ==
    /\ pc[t] = "for_init"
    /\ i' = [i EXCEPT ![t] = 0]
    /\ pc' = [pc EXCEPT ![t] = "for_test"]
    /\ UNCHANGED <<mem, samples, length, gain, sample, wide, calls, orig, rd, wr>>

\* line 4: i < length, and line 10 when it fails
ForTest(t) ==
    /\ pc[t] = "for_test"
    /\ pc' = [pc EXCEPT ![t] = IF LoopCond(i[t], length[t]) THEN "line5" ELSE "done"]
    /\ UNCHANGED <<mem, samples, length, gain, i, sample, wide, calls, orig, rd, wr>>

\* line 5: int sample = static_cast<int>(samples[i] * gain)
Line5(t) ==
    /\ pc[t] = "line5"
    /\ LET a == ElemAddr(samples[t], i[t])
       IN  /\ \E v \in CastToInt(FMul(ToFloat(mem[a]), gain[t], wide)) :
                 sample' = [sample EXCEPT ![SampleSlot(t)] = v]
           /\ rd' = [rd EXCEPT ![t] = @ \cup {a}]
    /\ pc' = [pc EXCEPT ![t] = "line6"]
    /\ UNCHANGED <<mem, samples, length, gain, i, wide, calls, orig, wr>>

\* line 6: if (sample > 32767) sample = 32767
Line6(t) ==
    /\ pc[t] = "line6"
    /\ sample' = [sample EXCEPT ![SampleSlot(t)] = ClampHigh(@)]
    /\ pc' = [pc EXCEPT ![t] = "line7"]
    /\ UNCHANGED <<mem, samples, length, gain, i, wide, calls, orig, rd, wr>>

\* line 7: if (sample < -32768) sample = -32768
Line7(t) ==
    /\ pc[t] = "line7"
    /\ sample' = [sample EXCEPT ![SampleSlot(t)] = ClampLow(@)]
    /\ pc' = [pc EXCEPT ![t] = "line8"]
    /\ UNCHANGED <<mem, samples, length, gain, i, wide, calls, orig, rd, wr>>

\* line 8: samples[i] = static_cast<short>(sample); sample then goes out of
\* scope (line 9)
Line8(t) ==
    /\ pc[t] = "line8"
    /\ mem' = [mem EXCEPT ![ElemAddr(samples[t], i[t])] =
                                  NarrowToShort(sample[SampleSlot(t)])]
    /\ wr' = [wr EXCEPT ![t] = Append(@, i[t])]
    /\ sample' = [sample EXCEPT ![SampleSlot(t)] = 0]
    /\ pc' = [pc EXCEPT ![t] = "for_incr"]
    /\ UNCHANGED <<samples, length, gain, i, wide, calls, orig, rd>>

\* line 4: ++i
ForIncr(t) ==
    /\ pc[t] = "for_incr"
    /\ i' = [i EXCEPT ![t] = NextIndex(@)]
    /\ pc' = [pc EXCEPT ![t] = "for_test"]
    /\ UNCHANGED <<mem, samples, length, gain, sample, wide, calls, orig, rd, wr>>

(***************************************************************************)
(* Specifications                                                          *)
(***************************************************************************)
\* one call on one buffer, any arguments
Next ==
    \/ \E t \in Callers : Call(t)
    \/ \E t \in Callers : ForInit(t)
    \/ \E t \in Callers : ForTest(t)
    \/ \E t \in Callers : Line5(t)
    \/ \E t \in Callers : Line6(t)
    \/ \E t \in Callers : Line7(t)
    \/ \E t \in Callers : Line8(t)
    \/ \E t \in Callers : ForIncr(t)

Spec == Init /\ [][Next]_vars

\* one call followed to its return: the thread running it is always
\* scheduled again
FairSpec == InitTerm /\ [][Next]_vars /\ WF_vars(Next)

\* successive calls with gain 1.0f on one buffer
NextUnity ==
    \/ \E t \in Callers : CallUnity(t)
    \/ \E t \in Callers : ForInit(t)
    \/ \E t \in Callers : ForTest(t)
    \/ \E t \in Callers : Line5(t)
    \/ \E t \in Callers : Line6(t)
    \/ \E t \in Callers : Line7(t)
    \/ \E t \in Callers : Line8(t)
    \/ \E t \in Callers : ForIncr(t)

SpecUnity == Init /\ [][NextUnity]_vars

\* two calls on two disjoint buffers, their statements interleaved
NextConc ==
    \/ \E t \in Callers : CallConc(t)
    \/ \E t \in Callers : ForInit(t)
    \/ \E t \in Callers : ForTest(t)
    \/ \E t \in Callers : Line5(t)
    \/ \E t \in Callers : Line6(t)
    \/ \E t \in Callers : Line7(t)
    \/ \E t \in Callers : Line8(t)
    \/ \E t \in Callers : ForIncr(t)

SpecConc == InitConc /\ [][NextConc]_vars

(***************************************************************************)
(* What the properties speak of                                            *)
(***************************************************************************)
\* element j of the buffer call t was given, as it is now
BufElem(t, j) == mem[samples[t] + j]

\* the indices call t has stored so far
Written(t) == {wr[t][k] : k \in 1 .. Len(wr[t])}

Shorts == SHRT_MIN .. SHRT_MAX

\* the real number s * g, as mantissa and exponent
RefProd(s, g) == [m |-> s * g.m, e |-> g.e]

\* p <= M, for an integer M
RefLE(p, M) ==
    IF p.e >= 0
    THEN IF p.e > 30 THEN p.m <= (IF M >= 0 THEN 0 ELSE -1)
         ELSE p.m <= M \div Pow2(p.e)
    ELSE LET d == Pow2(-p.e)
         IN  (p.m \div d) < M \/ ((p.m \div d) = M /\ p.m % d = 0)

\* p >= L, for an integer L
RefGE(p, L) ==
    IF p.e >= 0
    THEN IF p.e > 30 THEN p.m >= (IF L > 0 THEN 1 ELSE 0)
         ELSE LET d == Pow2(p.e)
              IN  p.m >= (L \div d) + (IF L % d = 0 THEN 0 ELSE 1)
    ELSE (p.m \div Pow2(-p.e)) >= L

\* p within [-32768, 32767]
RefInShort(p) == RefGE(p, SHRT_MIN) /\ RefLE(p, SHRT_MAX)

\* truncate_toward_zero(p), for p within the range of short
RefTrunc(p) ==
    IF p.m = 0 THEN 0
    ELSE IF p.e >= 0 THEN p.m * Pow2(p.e)
    ELSE IF p.m > 0 THEN p.m \div Pow2(-p.e)
    ELSE -((-p.m) \div Pow2(-p.e))

RECURSIVE OddPart(_)
OddPart(a) == IF a = 0 \/ a % 2 = 1 THEN a ELSE OddPart(a \div 2)

\* p is a float32: its significand fits FLT_MANT_DIG bits
RefIsF32(p) == BitLen(OddPart(Abs(p.m))) <= FLT_MANT_DIG

\* p as the build's multiplication delivers it
RefEvaluated(p) == IF wide THEN p ELSE RoundF32(p.m, p.e)

(***************************************************************************)
(* Properties                                                              *)
(***************************************************************************)
\* C1: every element apply_gain has stored lies in [-32768, 32767], in the
\* final and in every intermediate state of the loop, for every buffer,
\* length and gain; and it does so because the value was clamped, not
\* because the narrowing to short wrapped it: the int that line 8 narrows is
\* already within [-32768, 32767].
C1_OutputInRange ==
    \A t \in Callers :
        /\ \A j \in Written(t) : BufElem(t, j) \in Shorts
        /\ pc[t] = "line8" => sample[SampleSlot(t)] \in Shorts

\* a finished call over the whole buffer whose first product, 32767 * 131072,
\* is out of the range of int and came out as INT_MIN
C1_Witness ==
    /\ pc[1] = "done" /\ length[1] = BufLen /\ gain[1] = Gain128K
    /\ orig[1][0] = SHRT_MAX /\ BufElem(1, 0) = SHRT_MIN

\* C2 as stated: whenever the real product s * g is within [-32768, 32767],
\* the element stored is truncate_toward_zero(s * g).
C2_TruncOfRealProduct ==
    \A t \in Callers : \A j \in Written(t) :
        LET p == RefProd(orig[t][j], gain[t])
        IN  RefInShort(p) => BufElem(t, j) = RefTrunc(p)

\* C2 as amended: whenever the real product s * g is within [-32768, 32767],
\* the element stored is truncate_toward_zero of the product as the float
\* multiplication delivers it (s * g rounded to the nearest float32, or s * g
\* itself when the build evaluates wider); it is truncate_toward_zero(s * g)
\* whenever s * g is itself a float32.
C2_TruncOfFloatProduct ==
    \A t \in Callers : \A j \in Written(t) :
        LET p == RefProd(orig[t][j], gain[t])
        IN  RefInShort(p) =>
                /\ BufElem(t, j) = RefTrunc(RefEvaluated(p))
                /\ RefIsF32(p) => BufElem(t, j) = RefTrunc(p)

\* a finished call in a float32 build: 32767 * 0.5000152587890625 is
\* 16383.99998..., rounds to 16384.0f, and 16384 was stored; and -3 times the
\* same gain, -1.50004..., was stored as -1
C2_Witness ==
    /\ pc[1] = "done" /\ length[1] = BufLen /\ gain[1] = GainAboveHalf /\ ~wide
    /\ orig[1][0] = SHRT_MAX /\ BufElem(1, 0) = 16384
    /\ orig[1][1] = -3 /\ BufElem(1, 1) = -1

\* C3 as stated: whenever the real product s * g exceeds 32767, however
\* large it is, the element stored is 32767.
C3_ClampsEveryLargeProduct ==
    \A t \in Callers : \A j \in Written(t) :
        ~RefLE(RefProd(orig[t][j], gain[t]), SHRT_MAX) => BufElem(t, j) = SHRT_MAX

\* C4 as stated: whenever the real product s * g is below -32768, however
\* small it is, the element stored is -32768.
C4_ClampsEverySmallProduct ==
    \A t \in Callers : \A j \in Written(t) :
        ~RefGE(RefProd(orig[t][j], gain[t]), SHRT_MIN) => BufElem(t, j) = SHRT_MIN

\* C5: under calls with gain 1.0f, whatever their number and their lengths,
\* no step of apply_gain changes any element of the buffer.
C5_UnityGainIsIdentity == [][mem' = mem]_vars

\* the last of the successive calls has finished over the whole buffer, which
\* holds both extremes
C5_Witness ==
    /\ pc[1] = "done" /\ calls[1] = MaxCalls /\ gain[1] = GainOne
    /\ length[1] = BufLen /\ Len(wr[1]) = BufLen
    /\ BufElem(1, 0) = SHRT_MIN /\ BufElem(1, 1) = SHRT_MAX

\* C6: with gain 0.0f every element stored is 0, and when the call returns
\* every element at an index below length is 0.
C6_ZeroGainZeroes ==
    \A t \in Callers :
        gain[t] = GainZero =>
            /\ \A j \in Written(t) : BufElem(t, j) = 0
            /\ pc[t] = "done" => \A j \in 0 .. (length[t] - 1) : BufElem(t, j) = 0

\* a finished call with gain 0.0f over a buffer that held a negative and a
\* positive sample
C6_Witness ==
    /\ pc[1] = "done" /\ gain[1] = GainZero /\ length[1] = BufLen
    /\ orig[1][0] = SHRT_MIN /\ orig[1][1] = 100

\* C7: a call with length 0 never enters the loop body, reads no element,
\* stores no element, and leaves the buffer as it was.
C7_ZeroLengthIsNoOp ==
    \A t \in Callers :
        (pc[t] # "idle" /\ length[t] = 0) =>
            /\ pc[t] \in {"for_init", "for_test", "done"}
            /\ rd[t] = {}
            /\ wr[t] = << >>
            /\ \A j \in 0 .. (BufLen - 1) : BufElem(t, j) = orig[t][j]

\* a call with length 0 and a gain that would change every element has
\* returned
C7_Witness ==
    /\ pc[1] = "done" /\ calls[1] = 1 /\ length[1] = 0 /\ gain[1] = GainTwo
    /\ BufElem(1, 0) = 100 /\ i[1] = 0

\* C8: every call returns, having stored the indices 0, 1, ..., length - 1
\* once each and in this order; and the loop index only ever becomes 0 (at
\* the loop's start) or one more than it was.
C8_Terminates ==
    /\ <>(\A t \in Callers :
              pc[t] = "done" /\ wr[t] = [k \in 1 .. length[t] |-> k - 1])
    /\ [][\A t \in Callers :
              \/ i'[t] = i[t]
              \/ pc[t] = "for_init" /\ i'[t] = 0
              \/ pc[t] = "for_incr" /\ i'[t] = i[t] + 1]_vars

\* a call over the whole buffer has returned after BufLen iterations
C8_Witness ==
    /\ pc[1] = "done" /\ length[1] = BufLen /\ i[1] = BufLen
    /\ Len(wr[1]) = BufLen

\* C9: with two calls interleaved on disjoint buffers, each buffer holds at
\* every moment what its own call alone makes of it: an element its call has
\* stored is a value lines 5 to 8 yield for that element's original value and
\* that call's gain, every other element is as it was when the call began.
C9_DisjointCallsDoNotInterfere ==
    \A t \in Callers : \A j \in 0 .. (BufLen - 1) :
        IF j \in Written(t)
        THEN BufElem(t, j) \in Iteration(orig[t][j], gain[t], wide)
        ELSE pc[t] # "idle" => BufElem(t, j) = orig[t][j]

\* both calls have returned, each over its whole buffer, with different gains
C9_Witness ==
    /\ Callers = {1, 2}
    /\ pc[1] = "done" /\ pc[2] = "done"
    /\ length[1] = BufLen /\ length[2] = BufLen
    /\ gain[1] = GainNegOneAndHalf /\ gain[2] = Gain128K
    /\ orig[1][0] = -3 /\ BufElem(1, 0) = 4
    /\ orig[2][0] = -3 /\ BufElem(2, 0) = SHRT_MIN

\* C10: apply_gain stores only at indices below length, one after the other
\* from index 0; an element it has not stored holds its original value, at
\* every step and after the return; an element it has stored holds a value
\* that lines 5 to 8 yield for that element's original value and the gain.
C10_WritesOnlyBelowLength ==
    \A t \in Callers :
        pc[t] # "idle" =>
            /\ Written(t) \subseteq 0 .. (length[t] - 1)
            /\ rd[t] \subseteq {samples[t] + j : j \in 0 .. (length[t] - 1)}
            /\ \A j \in 0 .. (BufLen - 1) :
                   IF j \in Written(t)
                   THEN BufElem(t, j) \in Iteration(orig[t][j], gain[t], wide)
                   ELSE BufElem(t, j) = orig[t][j]

\* a call with a length short of the capacity has returned: the element it
\* processed is changed, the one beyond length is not
C10_Witness ==
    /\ pc[1] = "done" /\ length[1] = BufLen - 1 /\ gain[1] = GainTwo
    /\ orig[1][0] = 100 /\ BufElem(1, 0) = 200
    /\ BufElem(1, BufLen - 1) = orig[1][BufLen - 1]

=============================================================================
